---- MODULE Spec2Model ----
(***************************************************************************)
(* Model of isrutilities/sensorConstants.py: getConst (site dispatch,      *)
(* calibration read, derived constants, nearest-neighbour Ksys lookup)     *)
(* and the antenna pattern functions AMISR_Patternadj, AMISR_Pattern,      *)
(* Sond_Pattern, Millstone_Pattern_Z, Millstone_Pattern_M and              *)
(* Circ_Ant_Pattern.                                                       *)
(*                                                                         *)
(* Numbers.  Reals are carried exactly: a quantity q * pi^p with q a       *)
(* reduced fraction is the record [n, d, p].  Angles are integer degrees;  *)
(* an angle in radians is carried as the integer multiple of               *)
(* d2r = pi/180 it equals.  An azimuth produced by a rotation is a pair    *)
(* <<deg, tiny>>: tiny in {-1, 0, 1} is a floating-point residue of        *)
(* magnitude below 15*eps left by the trigonometric round trip.            *)
(***************************************************************************)
EXTENDS Integers, Sequences, FiniteSets, TLC

VARIABLES pc, typestr, angles, arrayfunc, h5filename, opened, tbl,
          sensdict, err, pat

vars == <<pc, typestr, angles, arrayfunc, h5filename, opened, tbl,
          sensdict, err, pat>>

----------------------------------------------------------------------------
(* Bounds of the explored inputs *)

MaxUpper == 1
MaxRows == 2
MaxQ == 2
MaxPts == 2

----------------------------------------------------------------------------
(* str.lower() on the characters site names are made of *)

LowerChars == <<"a","b","c","d","e","f","g","h","i","j","k","l","m",
                "n","o","p","q","r","s","t","u","v","w","x","y","z">>
UpperChars == <<"A","B","C","D","E","F","G","H","I","J","K","L","M",
                "N","O","P","Q","R","S","T","U","V","W","X","Y","Z">>

LowerChar(c) ==
  IF \E i \in 1..Len(UpperChars) : UpperChars[i] = c
  THEN LowerChars[CHOOSE i \in 1..Len(UpperChars) : UpperChars[i] = c]
  ELSE c

UpperChar(c) ==
  IF \E i \in 1..Len(LowerChars) : LowerChars[i] = c
  THEN UpperChars[CHOOSE i \in 1..Len(LowerChars) : LowerChars[i] = c]
  ELSE c

Lower(s) == [i \in 1..Len(s) |-> LowerChar(s[i])]

(* the string literals compared against in getConst *)
N_risr == <<"r","i","s","r">>
N_risrn == <<"r","i","s","r","-","n">>
N_pfisr == <<"p","f","i","s","r">>
N_millstone == <<"m","i","l","l","s","t","o","n","e">>
N_millstonez == <<"m","i","l","l","s","t","o","n","e","z">>
N_sondrestrom == <<"s","o","n","d","r","e","s","t","r","o","m">>

Recognized == {N_risr, N_risrn, N_pfisr, N_millstone, N_millstonez, N_sondrestrom}

(* a local variable that no branch assigned *)
Unbound == "unbound"

NoneOpt == [some |-> FALSE, v |-> <<>>]
Some(x) == [some |-> TRUE, v |-> x]

----------------------------------------------------------------------------
(* getConst, lines 50-65: the if/elif chain on typestr.lower(); no else. *)

ArrayFuncOfDefault(t) ==
  LET l == Lower(t) IN
  IF l = N_risr \/ l = N_risrn THEN "AMISR_Patternadj"
  ELSE IF l = N_pfisr THEN "AMISR_Patternadj"
  ELSE IF l = N_millstone THEN "Millstone_Pattern_M"
  ELSE IF l = N_millstonez THEN "Millstone_Pattern_Z"
  ELSE IF l = N_sondrestrom THEN "Sond_Pattern"
  ELSE "AMISR_Patternadj"

ArrayFuncOf(t) ==
  LET l == Lower(t) IN
  IF l = N_risr \/ l = N_risrn THEN "AMISR_Patternadj"
  ELSE IF l = N_pfisr THEN "AMISR_Patternadj"
  ELSE IF l = N_millstone THEN "Millstone_Pattern_M"
  ELSE IF l = N_millstonez THEN "Millstone_Pattern_Z"
  ELSE IF l = N_sondrestrom THEN "Sond_Pattern"
  ELSE Unbound

H5OfSwapped(t) ==
  LET l == Lower(t) IN
  IF l = N_risr \/ l = N_risrn THEN "RISR_PARAMS.h5"
  ELSE IF l = N_pfisr THEN "PFISR_PARAMS.h5"
  ELSE IF l = N_millstone THEN "Millstone_PARAMS.h5"
  ELSE IF l = N_millstonez THEN "Sondrestrom_PARAMS.h5"
  ELSE IF l = N_sondrestrom THEN "Sondrestrom_PARAMS.h5"
  ELSE Unbound

H5Of(t) ==
  LET l == Lower(t) IN
  IF l = N_risr \/ l = N_risrn THEN "RISR_PARAMS.h5"
  ELSE IF l = N_pfisr THEN "PFISR_PARAMS.h5"
  ELSE IF l = N_millstone THEN "Millstone_PARAMS.h5"
  ELSE IF l = N_millstonez THEN "Millstone_PARAMS.h5"
  ELSE IF l = N_sondrestrom THEN "Sondrestrom_PARAMS.h5"
  ELSE Unbound

----------------------------------------------------------------------------
(* Exact arithmetic on q * pi^p *)

RECURSIVE GCD(_, _)
GCD(a, b) == IF b = 0 THEN a ELSE GCD(b, a % b)

Abs(x) == IF x < 0 THEN -x ELSE x

Rat(n, d, p) ==
  LET g == GCD(Abs(n), Abs(d))
      s == IF d < 0 THEN -1 ELSE 1
  IN [n |-> s * (n \div g), d |-> s * (d \div g), p |-> p]

RInt(i) == Rat(i, 1, 0)
RPi == Rat(1, 1, 1)

RMul(a, b) ==
  LET g1 == GCD(Abs(a.n), Abs(b.d))
      g2 == GCD(Abs(b.n), Abs(a.d))
  IN Rat((a.n \div g1) * (b.n \div g2), (a.d \div g2) * (b.d \div g1), a.p + b.p)

RInv(a) == Rat(a.d, a.n, 0 - a.p)
RDiv(a, b) == RMul(a, RInv(b))

(* physConstants.v_C_0, the speed of light in m/s *)
v_C_0 == 299792458

----------------------------------------------------------------------------
(* Calibration files.  A file holds /Params/{Kmat, Frequency, Power,       *)
(* Bandwidth, Sampletime, Systemp, Angleoffset}; Kmat rows are             *)
(* <<index, az, el, ksys>>.  The content is external data.                 *)

RowPos == {<<0, 90>>, <<90, 90>>, <<0, 0>>}
QueryPos == {<<0, 90>>, <<0, 45>>}
KsysVals == {1, 2}

RowChoices == RowPos \X KsysVals

MkKmat(f) == [i \in 1..Len(f) |-> <<i - 1, f[i][1][1], f[i][1][2], f[i][2]>>]

Kmats == {MkKmat(f) : f \in UNION {[1..n -> RowChoices] : n \in 0..MaxRows}}

ParamSets ==
  { [Frequency |-> 449000000, Power |-> 2000000, Bandwidth |-> 100000,
     Sampletime |-> Rat(1, 50000, 0), Systemp |-> 120, Angleoffset |-> <<15, 16>>],
    [Frequency |-> 440000000, Power |-> 2500000, Bandwidth |-> 50000,
     Sampletime |-> Rat(1, 25000, 0), Systemp |-> 150, Angleoffset |-> <<0, 0>>] }

MkTable(km, ps) ==
  [Kmat |-> km, Frequency |-> ps.Frequency, Power |-> ps.Power,
   Bandwidth |-> ps.Bandwidth, Sampletime |-> ps.Sampletime,
   Systemp |-> ps.Systemp, Angleoffset |-> ps.Angleoffset]

Tables == {MkTable(km, ps) : km \in Kmats, ps \in ParamSets}

OneRowTables ==
  {MkTable(<<<<0, 0, 90, 1>>>>, ps) : ps \in ParamSets}

NoTable == MkTable(<<>>, [Frequency |-> 0, Power |-> 0, Bandwidth |-> 0,
                          Sampletime |-> Rat(0, 1, 0), Systemp |-> 0,
                          Angleoffset |-> <<0, 0>>])

(* the angles argument: None, or an N x 2 array of (az, el) rows *)
AngleArgs ==
  {NoneOpt} \cup {Some(a) : a \in UNION {[1..n -> QueryPos] : n \in 0..MaxQ}}

(* the typestr argument *)
CaseVariant(name, U) ==
  [i \in 1..Len(name) |-> IF i \in U THEN UpperChar(name[i]) ELSE name[i]]

CaseVariants(name) ==
  {CaseVariant(name, U) : U \in {V \in SUBSET (1..Len(name)) : Cardinality(V) <= MaxUpper}}

AllUpper(name) == [i \in 1..Len(name) |-> UpperChar(name[i])]

UnknownNames ==
  { <<"f","o","o">>, <<"F","o","o">>, <<>>, <<"r","i","s","r","-","s">>,
    <<"a","m","i","s","r">>, <<"m","i","l","l","s","t","o","n","e","s">>,
    <<"r","i","s","r","n">> }

NameInputs ==
  UNION {CaseVariants(n) : n \in Recognized}
    \cup {AllUpper(n) : n \in Recognized} \cup UnknownNames

MainNames == {N_pfisr, AllUpper(N_millstonez), <<"f","o","o">>}

----------------------------------------------------------------------------
(* mathutils.angles2xy: polar projection, radius 90 - el, azimuth          *)
(* clockwise from the y axis.  Exact for azimuths that are multiples of 90.*)

SinDeg(a) == LET m == a % 360 IN IF m = 90 THEN 1 ELSE IF m = 270 THEN -1 ELSE 0
CosDeg(a) == LET m == a % 360 IN IF m = 0 THEN 1 ELSE IF m = 180 THEN -1 ELSE 0

angles2xy(az, el) == <<(90 - el) * SinDeg(az), (90 - el) * CosDeg(az)>>

Dist2(p, q) == (p[1] - q[1]) * (p[1] - q[1]) + (p[2] - q[2]) * (p[2] - q[2])

(* getConst lines 78-80: the columns of kmat *)
KmatAz(km) == [i \in 1..Len(km) |-> km[i][2]]
KmatEl(km) == [i \in 1..Len(km) |-> km[i][3]]
KmatKsysWrongColumn(km) == [i \in 1..Len(km) |-> km[i][3]]
KmatKsys(km) == [i \in 1..Len(km) |-> km[i][4]]

(* getConst lines 82-83: points = column_stack(angles2xy(az, el)) *)
Points(km) == [i \in 1..Len(km) |-> angles2xy(KmatAz(km)[i], KmatEl(km)[i])]

(* getConst line 85: the projected query points *)
QueryXY(a) == [i \in 1..Len(a) |-> angles2xy(a[i][1], a[i][2])]

(* scipy griddata(points, values, xi, method='nearest'): for each xi the  *)
(* value at a point of least distance; which one among equidistant points  *)
(* is not specified, so every one of them is a possible result.            *)
NearestIdx(points, q) ==
  {j \in 1..Len(points) :
     \A m \in 1..Len(points) : Dist2(points[j], q) <= Dist2(points[m], q)}

griddataNearest(points, values, xi) ==
  {r \in [1..Len(xi) -> {values[j] : j \in 1..Len(values)}] :
     \A i \in 1..Len(xi) : \E j \in NearestIdx(points, xi[i]) : r[i] = values[j]}

(* getConst lines 84-88 *)
KsysOutIgnoringAngles(km, a) == {NoneOpt}

KsysOut(km, a) ==
  IF a.some
  THEN {Some(r) : r \in griddataNearest(Points(km), KmatKsys(km), QueryXY(a.v))}
  ELSE {NoneOpt}

(* griddata raises when asked for a neighbour among no points *)
LookupRaises(km, a) == a.some /\ Len(a.v) > 0 /\ Len(km) = 0

(* getConst lines 76-77 *)
Ksens(freq) == RDiv(RMul(RMul(RInt(freq), RInt(2)), RPi), RInt(v_C_0))
LambOf(ks) == RDiv(RDiv(ks, RInt(2)), RPi)

(* getConst lines 91-94 *)
taurg == 14
BeamWidth == <<2, 2>>

FsOf(ts) == RDiv(RInt(1), ts)

MkSensdict(name, t, ksysout, afunc) ==
  [Name |-> name, Pt |-> t.Power, k |-> Ksens(t.Frequency),
   lamb |-> LambOf(Ksens(t.Frequency)), fc |-> t.Frequency,
   fs |-> FsOf(t.Sampletime), taurg |-> taurg, Tsys |-> t.Systemp,
   BeamWidth |-> BeamWidth, Ksys |-> ksysout, BandWidth |-> t.Bandwidth,
   Angleoffset |-> t.Angleoffset, ArrayFunc |-> afunc, t_s |-> t.Sampletime]

NoDict == [some |-> FALSE, v |-> <<>>]
NoPat ==
  [func |-> "none", Az |-> <<>>, El |-> <<>>, Az0 |-> 0, El0 |-> 0, off |-> <<0, 0>>,
   Els |-> <<>>, EL |-> <<>>, Azr |-> <<>>, Az0r |-> <<0, 0>>,
   elementpower |-> <<>>, out |-> <<>>]

----------------------------------------------------------------------------
(* getConst as a sequence of steps *)

Init ==
  /\ pc = "idle"
  /\ typestr = <<>>
  /\ angles = NoneOpt
  /\ arrayfunc = Unbound
  /\ h5filename = Unbound
  /\ opened = "none"
  /\ tbl = NoTable
  /\ sensdict = NoDict
  /\ err = "none"
  /\ pat = NoPat

(* a caller invokes getConst(typestr, angles) *)
CallGetConst(names, args) ==
  /\ pc = "idle"
  /\ \E t \in names, a \in args :
       /\ typestr' = t
       /\ angles' = a
  /\ pc' = "dispatch"
  /\ UNCHANGED <<arrayfunc, h5filename, opened, tbl, sensdict, err, pat>>

(* lines 50-65 *)
Dispatch ==
  /\ pc = "dispatch"
  /\ arrayfunc' = ArrayFuncOf(typestr)
  /\ h5filename' = H5Of(typestr)
  /\ pc' = "open"
  /\ UNCHANGED <<typestr, angles, opened, tbl, sensdict, err, pat>>

(* lines 67-74: str(h5filename) is evaluated first; an unassigned local    *)
(* raises there, before tables.open_file is entered.                       *)
OpenRead(tables) ==
  /\ pc = "open"
  /\ IF h5filename = Unbound
     THEN /\ pc' = "error"
          /\ err' = "UnboundLocalError"
          /\ UNCHANGED <<opened, tbl>>
     ELSE \/ /\ \E t \in tables : tbl' = t
             /\ opened' = h5filename
             /\ pc' = "compute"
             /\ err' = err
          \/ /\ pc' = "error"
             /\ err' = "IOError"
             /\ UNCHANGED <<opened, tbl>>
  /\ UNCHANGED <<typestr, angles, arrayfunc, h5filename, sensdict, pat>>

(* lines 76-95 *)
Compute ==
  /\ pc = "compute"
  /\ IF LookupRaises(tbl.Kmat, angles)
     THEN /\ pc' = "error"
          /\ err' = "IndexError"
          /\ UNCHANGED sensdict
     ELSE /\ \E ko \in KsysOut(tbl.Kmat, angles) :
               sensdict' = Some(MkSensdict(typestr, tbl, ko, arrayfunc))
          /\ pc' = "done"
          /\ err' = err
  /\ UNCHANGED <<typestr, angles, arrayfunc, h5filename, opened, tbl, pat>>

(* the call is over: the descriptor or the exception went to the caller *)
Finish ==
  /\ pc \in {"done", "error", "patdone"}
  /\ pc' = "idle"
  /\ typestr' = <<>>
  /\ angles' = NoneOpt
  /\ arrayfunc' = Unbound
  /\ h5filename' = Unbound
  /\ opened' = "none"
  /\ tbl' = NoTable
  /\ sensdict' = NoDict
  /\ err' = "none"
  /\ pat' = NoPat

----------------------------------------------------------------------------
(* Pattern values.  A value is exact where the code's arithmetic makes it  *)
(* exact (0, 1) and a term over its arguments otherwise.                   *)

Val(tag, a) == [tag |-> tag, a |-> a]
Zero == Val("zero", <<>>)
One == Val("one", <<>>)

(* a * b where b is finite: 0 * b = 0 *)
VMul(a, b) ==
  IF a = Zero \/ b = Zero THEN Zero
  ELSE IF a = One THEN b
  ELSE IF b = One THEN a
  ELSE Val("mul", <<a, b>>)

(* a / b, b nonzero *)
VDiv(a, b) ==
  IF a = Zero THEN Zero
  ELSE IF a = b THEN One
  ELSE Val("div", <<a, b>>)

----------------------------------------------------------------------------
(* mathutils.rotcoords(Az, El, Az_0, El_0): the direction is turned by     *)
(* Az_0 about the vertical axis and then by El_0 about the horizontal axis *)
(* across the new azimuth zero; the result is read back with atan2 and     *)
(* asin, so the azimuth lies in (-180, 180] and the elevation in           *)
(* [-90, 90].  Integer degrees stay exact when El_0 is a multiple of 360,  *)
(* or when the turned direction lies in the vertical plane of azimuth 0    *)
(* and 180; RotExact says so and the inputs are drawn from such directions.*)

Norm180(x) == LET m == x % 360 IN IF m > 180 THEN m - 360 ELSE m

RotExact(az, el, Az_0, El_0) ==
  \/ El_0 % 360 = 0
  \/ (az + Az_0) % 180 = 0
  \/ el \in {90, -90}

rotcoords(az, el, Az_0, El_0) ==
  LET a1 == az + Az_0 IN
  IF El_0 % 360 = 0
  THEN <<Norm180(a1), el>>
  ELSE LET psi == IF el \in {90, -90} \/ a1 % 360 = 0 THEN el ELSE 180 - el
           q == Norm180(psi - El_0)
       IN IF q >= -90 /\ q <= 90 THEN <<0, q>>
          ELSE IF q > 90 THEN <<180, 180 - q>>
          ELSE <<180, -180 - q>>

(* mathutils.jinc(t): the Airy kernel, with its limit value at t = 0.      *)
(* The argument (2r/lamb)*sin(EL) is carried as                            *)
(* <<r.n, r.d, lamb.n, lamb.d, EL>>; it is 0 exactly when sin(EL) = 0.     *)
U0 == <<0, 1, 0, 1, 0>>
JincArg(r, lamb, EL) ==
  IF EL % 180 = 0 THEN U0 ELSE <<r.n, r.d, lamb.n, lamb.d, EL>>

(* (2r/lamb)^2 * |jinc(u)| *)
CircTerm(r, lamb, u) == Val("circ", <<r.n, r.d, lamb.n, lamb.d>> \o u)

----------------------------------------------------------------------------
(* Circ_Ant_Pattern(EL, r, lamb), lines 223-226.  EL is zenith referenced, *)
(* in units of d2r.                                                         *)

CircPatout(EL, r, lamb) ==
  [i \in 1..Len(EL) |->
     IF EL[i] < 0 THEN Zero ELSE CircTerm(r, lamb, JincArg(r, lamb, EL[i]))]

CircNormfactor(r, lamb) == CircTerm(r, lamb, U0)

Circ_Ant_PatternUnnormalized(EL, r, lamb) == CircPatout(EL, r, lamb)

Circ_Ant_Pattern(EL, r, lamb) ==
  [i \in 1..Len(EL) |-> VDiv(CircPatout(EL, r, lamb)[i], CircNormfactor(r, lamb))]

(* Sond_Pattern lines 144-150; Millstone_Pattern_Z lines 170-175;          *)
(* Millstone_Pattern_M lines 195-200.  The radii are 30, 33.5 and 23 m.    *)
Sond_radius == RInt(30)
MillZ_radius == Rat(67, 2, 0)
MillM_radius == RInt(23)
Sond_lamb == Rat(v_C_0, 1200000000, 0)
Mill_lamb == Rat(v_C_0, 440000000, 0)

Sond_Eladj(Az, El, Az0, El0) ==
  [i \in 1..Len(Az) |-> rotcoords(Az[i], El[i], 0 - Az0, El0 - 90)[2]]

MillZ_Eladj(Az, El, Az0, El0) ==
  [i \in 1..Len(Az) |-> rotcoords(Az[i], El[i], 0, 0)[2]]

MillM_Eladj(Az, El, Az0, El0) ==
  [i \in 1..Len(Az) |-> rotcoords(Az[i], El[i], 0 - Az0, El0 - 90)[2]]

ZenithRef(Eladj) == [i \in 1..Len(Eladj) |-> 90 - Eladj[i]]

Sond_Pattern(Az, El, Az0, El0, Angleoffset) ==
  Circ_Ant_Pattern(ZenithRef(Sond_Eladj(Az, El, Az0, El0)), Sond_radius, Sond_lamb)

Millstone_Pattern_Z(Az, El, Az0, El0, Angleoffset) ==
  Circ_Ant_Pattern(ZenithRef(MillZ_Eladj(Az, El, Az0, El0)), MillZ_radius, Mill_lamb)

Millstone_Pattern_M(Az, El, Az0, El0, Angleoffset) ==
  Circ_Ant_Pattern(ZenithRef(MillM_Eladj(Az, El, Az0, El0)), MillM_radius, Mill_lamb)

----------------------------------------------------------------------------
(* AMISR_Pattern(AZ, EL, Az0, El0), lines 263-287.  AZ is a sequence of    *)
(* <<deg, tiny>> and Az0 one such pair, EL and El0 are in units of d2r.    *)

(* lines 270-272 *)
ElementPowerNoCut(EL) == [i \in 1..Len(EL) |-> Val("elem", <<EL[i]>>)]

ElementPower(EL) ==
  [i \in 1..Len(EL) |-> IF EL[i] < 0 THEN Zero ELSE Val("elem", <<EL[i]>>)]

(* lines 274-285: |AF|^2, finite for every argument; where the observation *)
(* direction is the pointing direction both phases are 0 and AF = 2.       *)
ArrayFac(AZ, EL, Az0, El0) ==
  [i \in 1..Len(EL) |->
     IF AZ[i] = Az0 /\ EL[i] = El0
     THEN Val("four", <<>>)
     ELSE Val("af", <<AZ[i][1], AZ[i][2], EL[i], Az0[1], Az0[2], El0>>)]

(* line 286 *)
AMISR_Pattern(AZ, EL, Az0, El0) ==
  [i \in 1..Len(EL) |-> VMul(ElementPower(EL)[i], ArrayFac(AZ, EL, Az0, El0)[i])]

----------------------------------------------------------------------------
(* AMISR_Patternadj, lines 111-123.  nz[i] and nz0 are the residues a      *)
(* rotation by an offset that is no multiple of 90 degrees leaves on an    *)
(* azimuth whose exact value is 0.                                         *)

WithResidue(deg, r) == <<deg, IF deg = 0 THEN r ELSE 0>>

(* line 113 *)
Adj_Rot(Az, El, Angleoffset) ==
  [i \in 1..Len(Az) |-> rotcoords(Az[i], El[i], 0 - Angleoffset[1], 0 - Angleoffset[2])]

(* line 115: Azs[np.abs(Azs) < 15*eps] = 0. *)
Snap(a) == IF a[1] = 0 THEN <<0, 0>> ELSE a

(* line 116: np.mod(Azs, 360.); a negative residue is rounded up to 360.0 *)
Mod360(a) == IF a[1] = 0 /\ a[2] < 0 THEN <<360, 0>> ELSE <<a[1] % 360, a[2]>>

(* lines 113-116 and 121 *)
Adj_Azr(Az, El, Angleoffset, nz) ==
  [i \in 1..Len(Az) |->
     Mod360(Snap(WithResidue(Adj_Rot(Az, El, Angleoffset)[i][1], nz[i])))]

(* lines 113 and 119 *)
Adj_Els(Az, El, Angleoffset) ==
  [i \in 1..Len(Az) |-> Adj_Rot(Az, El, Angleoffset)[i][2]]

(* lines 118 and 122: the pointing azimuth goes on as rotcoords returned it *)
Adj_Az0r(Az0, El0, Angleoffset, nz0) ==
  WithResidue(rotcoords(Az0, El0, 0 - Angleoffset[1], 0 - Angleoffset[2])[1], nz0)

(* lines 118 and 120 *)
Adj_El0r(Az0, El0, Angleoffset) ==
  90 - rotcoords(Az0, El0, 0 - Angleoffset[1], 0 - Angleoffset[2])[2]

AMISR_Patternadj(Az, El, Az0, El0, Angleoffset, nz, nz0) ==
  AMISR_Pattern(Adj_Azr(Az, El, Angleoffset, nz),
                ZenithRef(Adj_Els(Az, El, Angleoffset)),
                Adj_Az0r(Az0, El0, Angleoffset, nz0),
                Adj_El0r(Az0, El0, Angleoffset))

----------------------------------------------------------------------------
(* Calls of the pattern functions *)

PtSeqs(S) == UNION {[1..n -> S] : n \in 1..MaxPts}
Col(s, c) == [i \in 1..Len(s) |-> s[i][c]]

DishAz0 == {0, 90, 270}
DishEl0 == {45, 90}
DishObs(Az0, El0) == {Az0, (Az0 + 180) % 360} \X {-90, -10, 10, El0}

MkPat(func, Az, El, Az0, El0, off, Els, EL, Azr, Az0r, ep, out) ==
  [func |-> func, Az |-> Az, El |-> El, Az0 |-> Az0, El0 |-> El0, off |-> off,
   Els |-> Els, EL |-> EL, Azr |-> Azr, Az0r |-> Az0r,
   elementpower |-> ep, out |-> out]

PatStep(p) ==
  /\ pc' = "patdone"
  /\ pat' = p
  /\ UNCHANGED <<typestr, angles, arrayfunc, h5filename, opened, tbl, sensdict, err>>

CallSond ==
  /\ pc = "idle"
  /\ \E Az0 \in DishAz0, El0 \in DishEl0 : \E o \in PtSeqs(DishObs(Az0, El0)) :
    LET Az == Col(o, 1)
        El == Col(o, 2)
        Eladj == Sond_Eladj(Az, El, Az0, El0)
    IN /\ \A i \in 1..Len(o) : RotExact(Az[i], El[i], 0 - Az0, El0 - 90)
       /\ PatStep(MkPat("Sond_Pattern", Az, El, Az0, El0, <<0, 0>>, Eladj,
                        ZenithRef(Eladj), <<>>, <<0, 0>>, <<>>,
                        Sond_Pattern(Az, El, Az0, El0, <<0, 0>>)))

CallMillZ ==
  /\ pc = "idle"
  /\ \E Az0 \in DishAz0, El0 \in DishEl0 : \E o \in PtSeqs(DishObs(Az0, El0)) :
    LET Az == Col(o, 1)
        El == Col(o, 2)
        Eladj == MillZ_Eladj(Az, El, Az0, El0)
    IN PatStep(MkPat("Millstone_Pattern_Z", Az, El, Az0, El0, <<0, 0>>, Eladj,
                     ZenithRef(Eladj), <<>>, <<0, 0>>, <<>>,
                     Millstone_Pattern_Z(Az, El, Az0, El0, <<0, 0>>)))

CallMillM ==
  /\ pc = "idle"
  /\ \E Az0 \in DishAz0, El0 \in DishEl0 : \E o \in PtSeqs(DishObs(Az0, El0)) :
    LET Az == Col(o, 1)
        El == Col(o, 2)
        Eladj == MillM_Eladj(Az, El, Az0, El0)
    IN /\ \A i \in 1..Len(o) : RotExact(Az[i], El[i], 0 - Az0, El0 - 90)
       /\ PatStep(MkPat("Millstone_Pattern_M", Az, El, Az0, El0, <<0, 0>>, Eladj,
                        ZenithRef(Eladj), <<>>, <<0, 0>>, <<>>,
                        Millstone_Pattern_M(Az, El, Az0, El0, <<0, 0>>)))

AdjOffsets == {<<0, 0>>, <<15, 16>>}
AdjAz(off) == IF off[2] = 0 THEN {off[1], (off[1] + 270) % 360}
              ELSE {off[1], (off[1] + 180) % 360}
AdjEl0 == {45, 90}
AdjObs(off) == AdjAz(off) \X {-10, 10, 90}
Residues(off, deg) ==
  IF deg = 0 /\ (off[1] % 90 # 0 \/ off[2] % 90 # 0) THEN {-1, 0, 1} ELSE {0}
ResidueChoices(Az, El, off) ==
  {nz \in [1..Len(Az) -> {-1, 0, 1}] :
     \A i \in 1..Len(Az) : nz[i] \in Residues(off, Adj_Rot(Az, El, off)[i][1])}

CallAMISRadj ==
  /\ pc = "idle"
  /\ \E off \in AdjOffsets : \E Az0 \in AdjAz(off), El0 \in AdjEl0, o \in PtSeqs(AdjObs(off)) :
    \E nz \in ResidueChoices(Col(o, 1), Col(o, 2), off),
       nz0 \in Residues(off, rotcoords(Az0, El0, 0 - off[1], 0 - off[2])[1]) :
      LET Az == Col(o, 1)
          El == Col(o, 2)
          Els == Adj_Els(Az, El, off)
          Azr == Adj_Azr(Az, El, off, nz)
          Az0r == Adj_Az0r(Az0, El0, off, nz0)
      IN /\ \A i \in 1..Len(o) : RotExact(Az[i], El[i], 0 - off[1], 0 - off[2])
         /\ RotExact(Az0, El0, 0 - off[1], 0 - off[2])
         /\ PatStep(MkPat("AMISR_Patternadj", Az, El, Az0, El0, off, Els,
                          ZenithRef(Els), Azr, Az0r,
                          ElementPower(ZenithRef(Els)),
                          AMISR_Patternadj(Az, El, Az0, El0, off, nz, nz0)))

(* AMISR_Pattern called directly, angles in units of d2r *)
DirectObs == {<<0, 0>>, <<90, 0>>} \X {-10, 0, 45, 100}
DirectEl0 == {0, 45}

CallAMISR ==
  /\ pc = "idle"
  /\ \E El0 \in DirectEl0, o \in PtSeqs(DirectObs) :
    LET AZ == Col(o, 1)
        EL == Col(o, 2)
    IN PatStep(MkPat("AMISR_Pattern", <<>>, <<>>, 0, El0, <<0, 0>>, <<>>,
                     EL, AZ, <<0, 0>>, ElementPower(EL),
                     AMISR_Pattern(AZ, EL, <<0, 0>>, El0)))

NextNames ==
  \/ CallGetConst(NameInputs, {NoneOpt, Some(<<<<0, 90>>>>)})
  \/ Dispatch
  \/ OpenRead(OneRowTables)
  \/ Compute
  \/ Finish

SpecNames == Init /\ [][NextNames]_vars


Next ==
  \/ CallGetConst(MainNames, AngleArgs)
  \/ Dispatch
  \/ OpenRead(Tables)
  \/ Compute
  \/ Finish
  \/ CallSond
  \/ CallMillZ
  \/ CallMillM
  \/ CallAMISRadj
  \/ CallAMISR

Spec == Init /\ [][Next]_vars

----------------------------------------------------------------------------
(* Properties *)

SameLetters(t, name) ==
  /\ Len(t) = Len(name)
  /\ \A i \in 1..Len(name) : t[i] \in {name[i], UpperChar(name[i])}

IsRecognized(t) == \E name \in Recognized : SameLetters(t, name)

(* C1: getConst with a site name that is none of the recognized names ends *)
(* in an error and returns no descriptor: no pattern function and no file  *)
(* name is ever chosen for it, and the error (the unassigned h5filename)   *)
(* is raised before any calibration file is opened or read.                *)
C1_UnknownNameRaises ==
  (pc \in {"open", "compute", "done", "error"} /\ ~IsRecognized(typestr)) =>
     /\ pc \in {"open", "error"}
     /\ arrayfunc = Unbound
     /\ h5filename = Unbound
     /\ opened = "none"
     /\ tbl = NoTable
     /\ sensdict = NoDict
     /\ (pc = "error" => err = "UnboundLocalError")

C1_Witness ==
  /\ pc = "error"
  /\ typestr = <<"f","o","o">>
  /\ err = "UnboundLocalError"
  /\ opened = "none"

(* C2: for every recognized site name in any letter case getConst selects  *)
(* the pattern function and the calibration file of that site, opens that  *)
(* file, and the returned descriptor's ArrayFunc is that pattern function. *)
C2_Sites ==
  { <<N_risr, "AMISR_Patternadj", "RISR_PARAMS.h5">>,
    <<N_risrn, "AMISR_Patternadj", "RISR_PARAMS.h5">>,
    <<N_pfisr, "AMISR_Patternadj", "PFISR_PARAMS.h5">>,
    <<N_millstone, "Millstone_Pattern_M", "Millstone_PARAMS.h5">>,
    <<N_millstonez, "Millstone_Pattern_Z", "Millstone_PARAMS.h5">>,
    <<N_sondrestrom, "Sond_Pattern", "Sondrestrom_PARAMS.h5">> }

C2_SiteSelection ==
  \A e \in C2_Sites :
    (pc \in {"open", "compute", "done", "error"} /\ SameLetters(typestr, e[1])) =>
       /\ arrayfunc = e[2]
       /\ h5filename = e[3]
       /\ (pc \in {"compute", "done"} => opened = e[3])
       /\ (pc = "done" => sensdict.some /\ sensdict.v.ArrayFunc = e[2])

C2_Witness ==
  /\ pc = "done"
  /\ typestr = <<"m","i","l","l","S","t","o","n","e","z">>
  /\ opened = "Millstone_PARAMS.h5"
  /\ sensdict.v.ArrayFunc = "Millstone_Pattern_Z"

(* C3: every returned descriptor has k = 2*pi*fc/c, lamb = c/fc and        *)
(* fs * t_s = 1.                                                           *)
C3_ConsistentConstants ==
  pc = "done" =>
    LET d == sensdict.v IN
      /\ d.k = RMul(Rat(2 * d.fc, v_C_0, 0), RPi)
      /\ d.lamb = Rat(v_C_0, d.fc, 0)
      /\ RMul(d.fs, d.t_s) = RInt(1)

(* the nearest calibration rows of a query row, from the table itself *)
RowXY(km, j) == angles2xy(km[j][2], km[j][3])
NearestRows(km, q) ==
  {j \in 1..Len(km) :
     \A m \in 1..Len(km) :
        Dist2(RowXY(km, j), angles2xy(q[1], q[2]))
          <= Dist2(RowXY(km, m), angles2xy(q[1], q[2]))}

(* C4 as stated: every Ksys entry is the system constant of a calibration  *)
(* sample at least projected distance from its query row, and a query      *)
(* equal to a sample's (az, el) gets that sample's system constant.        *)
C4_NearestAndExact ==
  (pc = "done" /\ angles.some) =>
    \A i \in 1..Len(angles.v) :
      /\ \E j \in NearestRows(tbl.Kmat, angles.v[i]) :
            sensdict.v.Ksys.v[i] = tbl.Kmat[j][4]
      /\ \A j \in 1..Len(tbl.Kmat) :
            (tbl.Kmat[j][2] = angles.v[i][1] /\ tbl.Kmat[j][3] = angles.v[i][2])
              => sensdict.v.Ksys.v[i] = tbl.Kmat[j][4]

(* C4 amended: every Ksys entry is the system constant of a calibration    *)
(* sample at least projected distance from its query row; a query equal to *)
(* a sample's (az, el) gets that sample's system constant whenever no      *)
(* other sample with a different system constant has the same projection.  *)
C4_NearestAndExactIfUnique ==
  (pc = "done" /\ angles.some) =>
    \A i \in 1..Len(angles.v) :
      /\ \E j \in NearestRows(tbl.Kmat, angles.v[i]) :
            sensdict.v.Ksys.v[i] = tbl.Kmat[j][4]
      /\ \A j \in 1..Len(tbl.Kmat) :
            ( /\ tbl.Kmat[j][2] = angles.v[i][1]
              /\ tbl.Kmat[j][3] = angles.v[i][2]
              /\ \A m \in 1..Len(tbl.Kmat) :
                   RowXY(tbl.Kmat, m) = RowXY(tbl.Kmat, j)
                     => tbl.Kmat[m][4] = tbl.Kmat[j][4] )
              => sensdict.v.Ksys.v[i] = tbl.Kmat[j][4]

C4_Witness ==
  /\ pc = "done"
  /\ angles.some
  /\ Len(angles.v) = 1
  /\ Len(tbl.Kmat) = 2
  /\ tbl.Kmat[1][4] # tbl.Kmat[2][4]
  /\ RowXY(tbl.Kmat, 1) # RowXY(tbl.Kmat, 2)
  /\ tbl.Kmat[2][2] = angles.v[1][1]
  /\ tbl.Kmat[2][3] = angles.v[1][2]
  /\ sensdict.v.Ksys.v[1] = tbl.Kmat[2][4]

(* C5: the descriptor's Ksys is None exactly when getConst was called      *)
(* without query angles; with N query rows it has N entries, entry i being *)
(* the one looked up for row i.                                            *)
C5_KsysShape ==
  pc = "done" =>
    /\ sensdict.v.Ksys.some <=> angles.some
    /\ angles.some =>
         /\ Len(sensdict.v.Ksys.v) = Len(angles.v)
         /\ \A i \in 1..Len(angles.v) :
              \E j \in NearestRows(tbl.Kmat, angles.v[i]) :
                 sensdict.v.Ksys.v[i] = tbl.Kmat[j][4]

C5_Witness ==
  /\ pc = "done"
  /\ angles.some
  /\ Len(angles.v) = 2
  /\ angles.v[1] # angles.v[2]
  /\ sensdict.v.Ksys.some
  /\ Len(sensdict.v.Ksys.v) = 2
  /\ sensdict.v.Ksys.v[1] # sensdict.v.Ksys.v[2]

IsDish == pat.func \in {"Sond_Pattern", "Millstone_Pattern_Z", "Millstone_Pattern_M"}

C7_ZeroBelowHorizon ==
  (pc = "patdone" /\ IsDish) =>
    \A i \in 1..Len(pat.out) : pat.Els[i] < 0 => pat.out[i] = Zero

(* C8: in the planar phased-array model the element power, and with it the *)
(* returned relative power, is 0 at every observation point whose angle EL *)
(* handed to AMISR_Pattern is negative.                                    *)
C8_ZeroWhereELNegative ==
  (pc = "patdone" /\ pat.func \in {"AMISR_Patternadj", "AMISR_Pattern"}) =>
    \A i \in 1..Len(pat.out) :
      pat.EL[i] < 0 => (pat.elementpower[i] = Zero /\ pat.out[i] = Zero)

C8_Witness ==
  /\ pc = "patdone"
  /\ pat.func = "AMISR_Pattern"
  /\ Len(pat.out) = 2
  /\ pat.EL[1] < 0
  /\ pat.out[1] = Zero
  /\ pat.EL[2] >= 0
  /\ pat.out[2] # Zero

(* C9: with an empty calibration table getConst fails, with or without     *)
(* query angles, returns no descriptor, and the error is of another kind   *)
(* than the one an unknown site name ends in.                              *)
C9_EmptyTableFails ==
  (pc \in {"done", "error"} /\ opened # "none" /\ Len(tbl.Kmat) = 0) =>
     /\ pc = "error"
     /\ sensdict = NoDict
     /\ err # "UnboundLocalError"

(* C10: in AMISR_Patternadj the pointing azimuth and every observation     *)
(* azimuth handed to AMISR_Pattern is the azimuth rotated by the negated   *)
(* offset, snapped to 0 when within the threshold and wrapped into         *)
(* [0, 360).                                                               *)
SnappedAndWrapped(a) == a[1] >= 0 /\ a[1] < 360 /\ a[2] = 0

C10_AzimuthsNormalized ==
  (pc = "patdone" /\ pat.func = "AMISR_Patternadj") =>
     /\ \A i \in 1..Len(pat.Azr) :
          /\ SnappedAndWrapped(pat.Azr[i])
          /\ pat.Azr[i][1] =
               rotcoords(pat.Az[i], pat.El[i], 0 - pat.off[1], 0 - pat.off[2])[1] % 360
     /\ SnappedAndWrapped(pat.Az0r)
     /\ pat.Az0r[1] =
          rotcoords(pat.Az0, pat.El0, 0 - pat.off[1], 0 - pat.off[2])[1] % 360

====
